---- MODULE Spec2Model ----
(***************************************************************************)
(* A model of gitpitch-generate.py (a Python 2 script): discovery of the   *)
(* Markdown bodies and their YAML metadata, slugify, materialization of    *)
(* the per-presentation directories, generation of the index table and     *)
(* the git steps that follow.                                              *)
(*                                                                         *)
(* Strings are sequences of one-character strings.  A source file is the   *)
(* record [dir, stem, ext]; a file's content is identified with the source *)
(* path it was copied from.  An output directory is the sequence of path   *)
(* components below out_dir, so << >> is out_dir itself.                   *)
(***************************************************************************)
EXTENDS Integers, Sequences, FiniteSets, TLC

VARIABLES
    pc,                 \* position of main()
    args,               \* [no_git, push]: the command-line flags given
    srcFiles,           \* the files of the source tree
    walk,               \* the .md files os.walk has still to yield, in order
    discovered,         \* the (rawName, body, metadata) triples found so far
    md_and_yaml_files,  \* slug -> [md, yaml]
    pending,            \* keys the materialization loop has still to visit
    presentation_name,  \* the loop variable of the materialization loop
    outDirs,            \* directories that exist below out_dir
    outFiles,           \* output path -> content
    swallowed,          \* errors caught by "except OSError: pass"
    err,                \* the unhandled exception that ended the run
    index_md_body,      \* result of generate_index_body
    check_for_repo,     \* output of git rev-parse
    add_ok,             \* local of main
    commit_ok,          \* local of main
    gitCalls,           \* the git commands invoked, in order
    value,              \* argument of a slugify call under test
    allow_unicode,      \* its allow_unicode parameter
    slug                \* its result

vars == << pc, args, srcFiles, walk, discovered, md_and_yaml_files, pending,
           presentation_name, outDirs, outFiles, swallowed, err, index_md_body,
           check_for_repo, add_ok, commit_ok, gitCalls, value, allow_unicode, slug >>

mainVars == << args, srcFiles, walk, discovered, pending, presentation_name,
               outDirs, outFiles, swallowed, check_for_repo, add_ok, commit_ok,
               gitCalls >>

slugVars == << value, allow_unicode, slug >>

(***************************************************************************)
(* Bounds of the model.                                                    *)
(***************************************************************************)
\* longest string handed to slugify on its own
MaxLen == 4
\* most body files in a source tree
MaxBodies == 2
\* the index is generated for up to MaxNames + 1 presentations
MaxNames == 24

(***************************************************************************)
(* Characters.                                                             *)
(***************************************************************************)
UpperChars == {"A", "M", "T"}
LowerChars == {"a", "b", "c", "d", "e", "f", "g", "h", "k", "l", "m", "t", "y"}
DigitChars == {"1"}
\* \w of a pattern compiled without re.UNICODE
WordChars == UpperChars \cup LowerChars \cup DigitChars \cup {"_"}
\* \s of a pattern compiled without re.UNICODE
SpaceChars == {" ", "\t"}
\* a byte >= 0x80 of a file name
NonAsciiChars == {"0xE9"}

\* the value None of a yaml_file
None == [dir |-> "", stem |-> << >>, ext |-> "None"]
\* no exception
NoError == "none"
\* a local of main that no statement has assigned yet
Unassigned == "unassigned"
\* a Python bool held by such a local
PyBool(b) == IF b THEN "True" ELSE "False"

Min(a, b) == IF a <= b THEN a ELSE b

(***************************************************************************)
(* slugify (lines 150-195).                                                *)
(***************************************************************************)
\* unicode(str(value)) decodes with the ascii codec and raises on a byte >= 0x80
SlugifyRaises(v) == \E i \in 1..Len(v) : v[i] \in NonAsciiChars

\* NFKC keeps the string; NFKD then encode('ascii', 'ignore') drops what is
\* not 7-bit (on ASCII text both normal forms are the identity)
Normalize(v, unicode_ok) ==
    IF unicode_ok THEN v
    ELSE SelectSeq(v, LAMBDA ch : ch \notin NonAsciiChars)

\* re.sub(r'[^\w\s-]', '', value)
RemoveNonWord(v) ==
    SelectSeq(v, LAMBDA ch : ch \in WordChars \cup SpaceChars \cup {"-"})

RECURSIVE LStrip(_)
LStrip(v) ==
    IF v /= << >> /\ Head(v) \in SpaceChars THEN LStrip(Tail(v)) ELSE v

RECURSIVE RStrip(_)
RStrip(v) ==
    IF v /= << >> /\ v[Len(v)] \in SpaceChars
    THEN RStrip(SubSeq(v, 1, Len(v) - 1)) ELSE v

\* unicode.strip()
Strip(v) == RStrip(LStrip(v))

LowerChar(ch) ==
    CASE ch = "A" -> "a"
      [] ch = "M" -> "m"
      [] ch = "T" -> "t"
      [] OTHER -> ch

\* unicode.lower()
Lower(v) == [i \in 1..Len(v) |-> LowerChar(v[i])]

SepChars == SpaceChars \cup {"-"}

RECURSIVE SkipSep(_)
SkipSep(v) ==
    IF v /= << >> /\ Head(v) \in SepChars THEN SkipSep(Tail(v)) ELSE v

\* a sub that replaces every character of [-\s] on its own (pattern without +)
CollapseEachChar(v) ==
    [i \in 1..Len(v) |-> IF v[i] \in SepChars THEN "-" ELSE v[i]]

\* re.sub(r'[-\s]+', '-', value): left to right, each match is a longest run
RECURSIVE CollapseRuns(_)
CollapseRuns(v) ==
    IF v = << >> THEN << >>
    ELSE IF Head(v) \in SepChars
         THEN <<"-">> \o CollapseRuns(SkipSep(Tail(v)))
         ELSE <<Head(v)>> \o CollapseRuns(Tail(v))

\* the value slugify returns when unicode(str(value)) does not raise
Slugify(v, unicode_ok) ==
    CollapseRuns(Lower(Strip(RemoveNonWord(Normalize(v, unicode_ok)))))

(***************************************************************************)
(* Order of str values, as sorted() compares them.                         *)
(***************************************************************************)
Ord(ch) ==
    CASE ch = "-" -> 45
      [] ch = "1" -> 49
      [] ch = "_" -> 95
      [] ch = "a" -> 97
      [] ch = "b" -> 98
      [] ch = "c" -> 99
      [] ch = "d" -> 100
      [] ch = "e" -> 101
      [] ch = "f" -> 102
      [] ch = "g" -> 103
      [] ch = "h" -> 104
      [] ch = "k" -> 107
      [] ch = "l" -> 108
      [] ch = "m" -> 109
      [] ch = "t" -> 116
      [] ch = "y" -> 121

RECURSIVE StrLess(_, _)
StrLess(a, b) ==
    IF b = << >> THEN FALSE
    ELSE IF a = << >> THEN TRUE
    ELSE IF Head(a) = Head(b) THEN StrLess(Tail(a), Tail(b))
    ELSE Ord(Head(a)) < Ord(Head(b))

RECURSIVE Sorted(_)
Sorted(S) ==
    IF S = {} THEN << >>
    ELSE LET m == CHOOSE x \in S : \A y \in S \ {x} : StrLess(x, y)
         IN  <<m>> \o Sorted(S \ {m})

(***************************************************************************)
(* generate_index_body (lines 115-147).                                    *)
(***************************************************************************)
\* min(n // 10 + 1, 3): floor where the code takes the ceiling
NColsFloor(n) == Min(n \div 10 + 1, 3)

\* min(int(math.ceil(n_presentations / float(10))), 3)
NCols(n) == Min((n + 9) \div 10, 3)

\* int(round(n_presentations / float(n_cols))) for n_cols > 0; round() of
\* Python 2 rounds a half away from zero
NPerCol(n, n_cols) == (2 * n + n_cols) \div (2 * n_cols)

\* '[{0}](?p={0})'.format(name)
Cell(name) == [text |-> name, target |-> name]

\* the table filled row by row instead of column by column
FillTableRowMajor(table, presentations, n_cols, n_per_col, c, r, i) ==
    [rr \in 1..n_per_col |->
        [cc \in 1..n_cols |->
            Cell(IF (rr - 1) * n_cols + cc <= Len(presentations)
                 THEN presentations[(rr - 1) * n_cols + cc]
                 ELSE << >>)]]

\* the loop of lines 134-139 from column c, row r, with counter i
RECURSIVE FillTable(_, _, _, _, _, _, _)
FillTable(table, presentations, n_cols, n_per_col, c, r, i) ==
    IF c >= n_cols THEN table
    ELSE IF r >= n_per_col
         THEN FillTable(table, presentations, n_cols, n_per_col, c + 1, 0, i)
         ELSE FillTable(
                [table EXCEPT ![r + 1] = Append(@,
                    Cell(IF i < Len(presentations) THEN presentations[i + 1]
                         ELSE << >>))],
                presentations, n_cols, n_per_col, c, r + 1, i + 1)

\* the value generate_index_body returns, or the exception it raises
GenerateIndexBody(keys) ==
    LET n_presentations == Cardinality(keys)
        n_cols          == NCols(n_presentations)
    IN  IF n_cols = 0
        THEN [raised |-> "ZeroDivisionError"]
        ELSE LET n_per_col     == NPerCol(n_presentations, n_cols)
                 presentations == Sorted(keys)
             IN  [raised |-> NoError,
                  header    |-> [c \in 1..n_cols |-> "   "],
                  separator |-> [c \in 1..n_cols |-> "---"],
                  rows      |-> FillTable([r \in 1..n_per_col |-> << >>],
                                          presentations, n_cols, n_per_col,
                                          0, 0, 0),
                  last      |-> "\n"]

(***************************************************************************)
(* The source tree and the output tree.                                    *)
(***************************************************************************)
Root == "src_dir"
Sub  == "src_dir/sub"
Dirs == {Root, Sub}

Common    == <<"c", "o", "m", "m", "o", "n">>
IndexStem == <<"i", "n", "d", "e", "x">>

\* stems of the body files src_dir may hold: two that differ in case, two
\* made of punctuation only, one that is not ASCII
RootNames == { <<"a">>, <<"A">>, <<"!">>, <<"?">>, <<"0xE9">> }
\* stems of the body files its subdirectory may hold
SubNames == { <<"a">>, <<"!">> }
RawNames == RootNames \cup SubNames

File(dir, stem, ext) == [dir |-> dir, stem |-> stem, ext |-> ext]

BodyUniverse ==
    { File(Root, s, "md") : s \in RootNames } \cup { File(Sub, s, "md") : s \in SubNames }

\* the YAML files main() can look at, given the bodies
YamlUniverse(bodies) ==
    { File(b.dir, b.stem, "yaml") : b \in bodies }
        \cup { File(d, Common, "yaml") : d \in Dirs }
        \cup { File(Root, IndexStem, "yaml") }

RECURSIVE Perms(_)
Perms(S) ==
    IF S = {} THEN { << >> }
    ELSE UNION { { <<x>> \o p : p \in Perms(S \ {x}) } : x \in S }

\* os.walk is top-down: the files of src_dir, then those of its
\* subdirectory; within one directory the order is that of os.listdir
WalkOrders(bodies) ==
    { p \o q : p \in Perms({ b \in bodies : b.dir = Root }),
               q \in Perms({ b \in bodies : b.dir = Sub }) }

OutRoot == << >>

\* os.path.join(out_dir, presentation_name); joining '' names out_dir itself
PresentationDir(name) == IF name = << >> THEN OutRoot ELSE <<name>>

SlugUniverse == { Slugify(s, FALSE) : s \in { r \in RawNames : ~SlugifyRaises(r) } }

OutDirUniverse == { PresentationDir(k) : k \in SlugUniverse } \cup { OutRoot }

OutPath(dir, file) == [dir |-> dir, file |-> file]

OutPaths == { OutPath(d, f) : d \in OutDirUniverse, f \in {"PITCHME.md", "PITCHME.yaml"} }

Absent == [kind |-> "absent"]
CopyOf(src) == [kind |-> "copy", of |-> src]
Written(body) == [kind |-> "written", body |-> body]

NoBody == [raised |-> "not called"]

do_git == ~args.no_git
do_git_push == args.push

Keys == DOMAIN md_and_yaml_files

(***************************************************************************)
(* main (lines 35-112).                                                    *)
(***************************************************************************)
Init ==
    /\ pc = "get_args"
    /\ args \in [no_git : BOOLEAN, push : BOOLEAN]
    /\ \E bodies \in SUBSET BodyUniverse :
          /\ Cardinality(bodies) <= MaxBodies
          /\ \E yamls \in SUBSET YamlUniverse(bodies) : srcFiles = bodies \cup yamls
          /\ walk \in WalkOrders(bodies)
    /\ discovered = << >>
    /\ md_and_yaml_files = << >>
    /\ pending = {}
    /\ presentation_name = << >>
    /\ outDirs \in { {OutRoot}, OutDirUniverse }
    /\ outFiles = [p \in OutPaths |-> Absent]
    /\ swallowed = {}
    /\ err = NoError
    /\ index_md_body = NoBody
    /\ check_for_repo = ""
    /\ add_ok = Unassigned
    /\ commit_ok = Unassigned
    /\ gitCalls = << >>
    /\ value = << >>
    /\ allow_unicode = FALSE
    /\ slug = << >>

Raise(e) ==
    /\ pc' = "aborted"
    /\ err' = e

\* get_args: --no-git and --push are in one mutually exclusive group
GetArgs ==
    /\ pc = "get_args"
    /\ IF args.no_git /\ args.push
       THEN Raise("SystemExit")
       ELSE pc' = "walk" /\ err' = err
    /\ UNCHANGED << mainVars, md_and_yaml_files, index_md_body, slugVars >>

\* the fallback looked up beside the body instead of in src_dir
ResolveYamlBesideBody(file, files) ==
    IF File(file.dir, file.stem, "yaml") \in files
    THEN File(file.dir, file.stem, "yaml")
    ELSE IF File(file.dir, Common, "yaml") \in files
         THEN File(file.dir, Common, "yaml")
         ELSE None

\* lines 59-63
ResolveYaml(file, files) ==
    IF File(file.dir, file.stem, "yaml") \in files
    THEN File(file.dir, file.stem, "yaml")
    ELSE IF File(Root, Common, "yaml") \in files
         THEN File(Root, Common, "yaml")
         ELSE None

\* one iteration of the loop of lines 54-64 on a .md file
Discover ==
    /\ pc = "walk"
    /\ walk /= << >>
    /\ LET file      == Head(walk)
           rawName   == file.stem
           yaml_file == ResolveYaml(file, srcFiles)
       IN  /\ walk' = Tail(walk)
           /\ IF SlugifyRaises(rawName)
              THEN /\ Raise("UnicodeDecodeError")
                   /\ UNCHANGED << discovered, md_and_yaml_files >>
              ELSE /\ md_and_yaml_files' =
                        (Slugify(rawName, FALSE) :> [md |-> file, yaml |-> yaml_file])
                            @@ md_and_yaml_files
                   /\ discovered' = Append(discovered,
                        [rawName |-> rawName, bodyPath |-> file,
                         metadataPath |-> yaml_file])
                   /\ UNCHANGED << pc, err >>
    /\ UNCHANGED << args, srcFiles, pending, presentation_name, outDirs, outFiles,
                    swallowed, index_md_body, check_for_repo, add_ok, commit_ok,
                    gitCalls, slugVars >>

\* the walk is over: the loop of line 68 starts
WalkDone ==
    /\ pc = "walk"
    /\ walk = << >>
    /\ pc' = "materialize"
    /\ pending' = Keys
    /\ UNCHANGED << args, srcFiles, walk, discovered, md_and_yaml_files,
                    presentation_name, outDirs, outFiles, swallowed, err,
                    index_md_body, check_for_repo, add_ok, commit_ok, gitCalls,
                    slugVars >>

\* lines 68-73: the next key of the dict (in no particular order) and makedirs
Makedirs ==
    /\ pc = "materialize"
    /\ \E name \in pending :
          /\ presentation_name' = name
          /\ pending' = pending \ {name}
          /\ LET presentation_dir == PresentationDir(name)
             IN  IF presentation_dir \in outDirs
                 THEN /\ swallowed' = swallowed \cup {"EEXIST"}
                      /\ UNCHANGED outDirs
                 ELSE \/ /\ outDirs' = outDirs \cup {presentation_dir}
                         /\ UNCHANGED swallowed
                      \/ /\ swallowed' = swallowed \cup {"EACCES"}
                         /\ UNCHANGED outDirs
    /\ pc' = "copy_md"
    /\ UNCHANGED << args, srcFiles, walk, discovered, md_and_yaml_files, outFiles,
                    err, index_md_body, check_for_repo, add_ok, commit_ok, gitCalls,
                    slugVars >>

\* copy2(src, dst): fails when the directory of dst is missing, and may fail
\* for a reason of the file system's own
Copy2(src, dir, file, next) ==
    IF dir \notin outDirs
    THEN Raise("IOError") /\ UNCHANGED outFiles
    ELSE \/ /\ outFiles' = [outFiles EXCEPT ![OutPath(dir, file)] = CopyOf(src)]
            /\ pc' = next
            /\ UNCHANGED err
         \/ Raise("IOError") /\ UNCHANGED outFiles

\* line 77
CopyMd ==
    /\ pc = "copy_md"
    /\ Copy2(md_and_yaml_files[presentation_name].md,
             PresentationDir(presentation_name), "PITCHME.md", "copy_yaml")
    /\ UNCHANGED << args, srcFiles, walk, discovered, md_and_yaml_files, pending,
                    presentation_name, outDirs, swallowed, index_md_body,
                    check_for_repo, add_ok, commit_ok, gitCalls, slugVars >>

\* lines 78-79
CopyYaml ==
    /\ pc = "copy_yaml"
    /\ IF md_and_yaml_files[presentation_name].yaml /= None
       THEN Copy2(md_and_yaml_files[presentation_name].yaml,
                  PresentationDir(presentation_name), "PITCHME.yaml", "materialize")
       ELSE pc' = "materialize" /\ UNCHANGED << outFiles, err >>
    /\ UNCHANGED << args, srcFiles, walk, discovered, md_and_yaml_files, pending,
                    presentation_name, outDirs, swallowed, index_md_body,
                    check_for_repo, add_ok, commit_ok, gitCalls, slugVars >>

\* lines 82-84, once the loop of line 68 is over
IndexYaml ==
    /\ pc = "materialize"
    /\ pending = {}
    /\ IF File(Root, IndexStem, "yaml") \in srcFiles
       THEN Copy2(File(Root, IndexStem, "yaml"), OutRoot, "PITCHME.yaml", "index_body")
       ELSE pc' = "index_body" /\ UNCHANGED << outFiles, err >>
    /\ UNCHANGED << args, srcFiles, walk, discovered, md_and_yaml_files, pending,
                    presentation_name, outDirs, swallowed, index_md_body,
                    check_for_repo, add_ok, commit_ok, gitCalls, slugVars >>

\* line 86
IndexBody ==
    /\ pc = "index_body"
    /\ LET body == GenerateIndexBody(Keys)
       IN  IF body.raised /= NoError
           THEN Raise(body.raised) /\ UNCHANGED index_md_body
           ELSE /\ index_md_body' = body
                /\ pc' = "write_index"
                /\ UNCHANGED err
    /\ UNCHANGED << mainVars, md_and_yaml_files, slugVars >>

\* lines 88-89
WriteIndex ==
    /\ pc = "write_index"
    /\ \/ /\ outFiles' = [outFiles EXCEPT ![OutPath(OutRoot, "PITCHME.md")] =
                                                Written(index_md_body)]
          /\ pc' = "git"
          /\ UNCHANGED err
       \/ Raise("IOError") /\ UNCHANGED outFiles
    /\ UNCHANGED << args, srcFiles, walk, discovered, md_and_yaml_files, pending,
                    presentation_name, outDirs, swallowed, index_md_body,
                    check_for_repo, add_ok, commit_ok, gitCalls, slugVars >>

gitUnchanged == << args, srcFiles, walk, discovered, md_and_yaml_files, pending,
                   presentation_name, outDirs, outFiles, swallowed, index_md_body,
                   slugVars >>

\* line 92 with --no-git: straight to the closing messages
SkipGit ==
    /\ pc = "git"
    /\ ~do_git
    /\ pc' = "final"
    /\ UNCHANGED << gitUnchanged, err, check_for_repo, add_ok, commit_ok, gitCalls >>

\* line 93: subprocess.call(['cd', out_dir]) runs a program named cd; where
\* the system has none, the call raises OSError
GitCd ==
    /\ pc = "git"
    /\ do_git
    /\ \/ pc' = "git_check" /\ UNCHANGED err
       \/ Raise("OSError")
    /\ UNCHANGED << gitUnchanged, check_for_repo, add_ok, commit_ok, gitCalls >>

\* lines 94-100: git rev-parse prints 'true', prints something else, or
\* fails (check_output raises, the bare except leaves '')
GitCheck ==
    /\ pc = "git_check"
    /\ \E output \in {"true", "false", ""} :
          /\ check_for_repo' = output
          /\ gitCalls' = gitCalls \o <<"rev-parse">>
                           \o (IF output /= "true" THEN <<"init">> ELSE << >>)
    /\ pc' = "git_add"
    /\ UNCHANGED << gitUnchanged, err, add_ok, commit_ok >>

\* lines 101-103
GitAdd ==
    /\ pc = "git_add"
    /\ \E ok \in BOOLEAN :
          /\ add_ok' = PyBool(ok)
          /\ pc' = IF ok THEN "git_commit" ELSE "final"
    /\ gitCalls' = Append(gitCalls, "add")
    /\ UNCHANGED << gitUnchanged, err, check_for_repo, commit_ok >>

\* line 105
GitCommit ==
    /\ pc = "git_commit"
    /\ \E ok \in BOOLEAN :
          /\ commit_ok' = PyBool(ok)
          /\ pc' = IF ok /\ do_git_push THEN "git_push" ELSE "final"
    /\ gitCalls' = Append(gitCalls, "commit")
    /\ UNCHANGED << gitUnchanged, err, check_for_repo, add_ok >>

\* line 107
GitPush ==
    /\ pc = "git_push"
    /\ gitCalls' = Append(gitCalls, "push")
    /\ pc' = "final"
    /\ UNCHANGED << gitUnchanged, err, check_for_repo, add_ok, commit_ok >>

\* lines 109-112: "not args.do_git_push and commit_ok" reads commit_ok
\* unless --push was given
FinalMessages ==
    /\ pc = "final"
    /\ IF ~do_git_push /\ commit_ok = Unassigned
       THEN Raise("NameError")
       ELSE pc' = "done" /\ UNCHANGED err
    /\ UNCHANGED << gitUnchanged, check_for_repo, add_ok, commit_ok, gitCalls >>

Next ==
    \/ GetArgs
    \/ Discover
    \/ WalkDone
    \/ Makedirs
    \/ CopyMd
    \/ CopyYaml
    \/ IndexYaml
    \/ IndexBody
    \/ WriteIndex
    \/ SkipGit
    \/ GitCd
    \/ GitCheck
    \/ GitAdd
    \/ GitCommit
    \/ GitPush
    \/ FinalMessages

Spec == Init /\ [][Next]_vars

(***************************************************************************)
(* generate_index_body on its own: called on a mapping of up to            *)
(* MaxNames + 1 keys, then written as main writes it.                      *)
(***************************************************************************)
Letters == <<"a", "b", "c", "d", "e", "f", "g", "h">>

\* the i-th name of the pool: '' for 0, then two-letter slugs whose order
\* as strings is not the order of i
NameAt(i) ==
    IF i = 0 THEN << >>
    ELSE << Letters[(i % 5) + 1], Letters[(i \div 5) + 1] >>

\* a run of the pool with at most one name left out
KeySets ==
    { { NameAt(i) : i \in (a..b) \ {g} } :
        a \in 0..1, b \in 0..MaxNames, g \in 0..MaxNames }

InitIndex ==
    /\ pc = "index_body"
    /\ \E keys \in KeySets :
          md_and_yaml_files =
              [k \in keys |-> [md |-> File(Root, k \o <<"!">>, "md"), yaml |-> None]]
    /\ args = [no_git |-> TRUE, push |-> FALSE]
    /\ srcFiles = { md_and_yaml_files[k].md : k \in Keys }
    /\ walk = << >>
    /\ discovered = << >>
    /\ pending = {}
    /\ presentation_name = << >>
    /\ outDirs = {OutRoot}
    /\ outFiles = [p \in OutPaths |-> Absent]
    /\ swallowed = {}
    /\ err = NoError
    /\ index_md_body = NoBody
    /\ check_for_repo = ""
    /\ add_ok = Unassigned
    /\ commit_ok = Unassigned
    /\ gitCalls = << >>
    /\ value = << >>
    /\ allow_unicode = FALSE
    /\ slug = << >>

NextIndex ==
    \/ IndexBody
    \/ WriteIndex

SpecIndex == InitIndex /\ [][NextIndex]_vars

(***************************************************************************)
(* slugify on its own: called on every string of up to MaxLen characters   *)
(* of SlugAlphabet and on the examples.                                    *)
(***************************************************************************)
SlugAlphabet == {"A", "a", "1", "_", "-", " ", "\t", "!", "0xE9"}

RECURSIVE Strings(_)
Strings(n) ==
    IF n = 0 THEN { << >> }
    ELSE LET shorter == Strings(n - 1)
         IN  shorter \cup { Append(s, ch) : s \in shorter, ch \in SlugAlphabet }

MyTalk == <<"M", "y", " ", "T", "a", "l", "k", "!">>

InitSlug ==
    /\ pc = "slugify"
    /\ value \in Strings(MaxLen) \cup {MyTalk}
    /\ allow_unicode \in BOOLEAN
    /\ slug = << >>
    /\ err = NoError
    /\ args = [no_git |-> TRUE, push |-> FALSE]
    /\ srcFiles = {}
    /\ walk = << >>
    /\ discovered = << >>
    /\ md_and_yaml_files = << >>
    /\ pending = {}
    /\ presentation_name = << >>
    /\ outDirs = {OutRoot}
    /\ outFiles = [p \in OutPaths |-> Absent]
    /\ swallowed = {}
    /\ index_md_body = NoBody
    /\ check_for_repo = ""
    /\ add_ok = Unassigned
    /\ commit_ok = Unassigned
    /\ gitCalls = << >>

\* a call slugify(value, allow_unicode)
SlugifyCall ==
    /\ pc = "slugify"
    /\ IF SlugifyRaises(value)
       THEN Raise("UnicodeDecodeError") /\ UNCHANGED slug
       ELSE /\ slug' = Slugify(value, allow_unicode)
            /\ pc' = "slugified"
            /\ UNCHANGED err
    /\ UNCHANGED << mainVars, md_and_yaml_files, index_md_body, value, allow_unicode >>

NextSlug == SlugifyCall

SpecSlug == InitSlug /\ [][NextSlug]_vars

(***************************************************************************)
(* Properties of slugify, checked under SpecSlug.                          *)
(***************************************************************************)
\* the four steps as the specification words them, by position
KeptChars == UpperChars \cup LowerChars \cup DigitChars \cup {"_", "-"} \cup SpaceChars

StepRemove(v) == SelectSeq(v, LAMBDA ch : ch \in KeptChars)

StepTrim(v) ==
    LET solid == { i \in 1..Len(v) : v[i] \notin SpaceChars }
    IN  IF solid = {} THEN << >>
        ELSE SubSeq(v, CHOOSE i \in solid : \A j \in solid : i <= j,
                       CHOOSE i \in solid : \A j \in solid : i >= j)

StepCollapse(v) ==
    LET marked == [i \in 1..Len(v) |->
                      IF v[i] \notin SepChars THEN v[i]
                      ELSE IF i = 1 \/ v[i - 1] \notin SepChars THEN "-"
                      ELSE "dropped"]
    IN  SelectSeq(marked, LAMBDA ch : ch /= "dropped")

StepsInOrder(v) == StepCollapse(Lower(StepTrim(StepRemove(v))))

NItems == Cardinality(Keys)

Generated == index_md_body.raised = NoError

\* the number of keys that sort before k
Rank(k) == Cardinality({ other \in Keys : StrLess(other, k) })

\* the cells of the generated table that link to k
CellsOf(k) ==
    { <<i, j>> \in (1..Len(index_md_body.rows)) \X (1..3) :
        /\ j <= Len(index_md_body.rows[i])
        /\ index_md_body.rows[i][j].text = k
        /\ index_md_body.rows[i][j].target = k }

\* C1: for every mapping of n >= 1 entries, every name is the text and the
\* ?p= target of exactly one cell of the table: no presentation is left out.
\* (The name '' reads like a slot without an item, so for it the cells are
\* only required to exist.)
C1_EveryNameLinkedOnce ==
    (Generated /\ NItems >= 1) =>
        \A k \in Keys :
            /\ CellsOf(k) /= {}
            /\ k /= << >> => Cardinality(CellsOf(k)) = 1

\* C3: c = min(ceil(n / 10), 3): 1 column for 1 <= n <= 10, 2 for
\* 11 <= n <= 20, 3 from 21 on; the header row and the separator row have
\* c cells each.
C3_ColumnCount ==
    /\ NCols(5) = 1 /\ NCols(10) = 1 /\ NCols(11) = 2
    /\ NCols(21) = 3 /\ NCols(100) = 3
    /\ (Generated /\ NItems >= 1) =>
          LET c == IF NItems <= 10 THEN 1 ELSE IF NItems <= 20 THEN 2 ELSE 3
          IN  /\ Len(index_md_body.header) = c
              /\ Len(index_md_body.separator) = c
              /\ \A i \in 1..Len(index_md_body.rows) :
                    Len(index_md_body.rows[i]) = c

\* an index of 21 or more presentations has been generated, with 3 columns
C3_Witness ==
    /\ Generated
    /\ NItems >= 21
    /\ Len(index_md_body.header) = 3

\* C4: with no item generate_index_body does not fail; it returns a header
\* and a separator of one column and a single row of one empty cell.
C4_EmptyIndexWellFormed ==
    (NItems = 0 /\ pc /= "index_body") =>
        /\ index_md_body.raised = NoError
        /\ Len(index_md_body.header) = 1
        /\ Len(index_md_body.separator) = 1
        /\ index_md_body.rows = << << Cell(<< >>) >> >>

\* C7: with r rows, the cell at row i, column j holds the name of sorted
\* index j*r + i when that is below n and an empty link slot otherwise;
\* every row has c cells, every column before the last is full, and the
\* slots without an item are the last ones of the last column.
C7_ColumnMajor ==
    (Generated /\ NItems >= 1) =>
        LET rows == index_md_body.rows
            c    == Len(index_md_body.header)
            r    == Len(rows)
        IN  /\ 0 - c <= 2 * (r * c - NItems)
            /\ 2 * (r * c - NItems) <= c
            /\ \A i \in 0..(r - 1) : Len(rows[i + 1]) = c
            /\ \A i \in 0..(r - 1), j \in 0..(c - 1) :
                  IF j * r + i < NItems
                  THEN \E k \in Keys :
                          /\ Rank(k) = j * r + i
                          /\ rows[i + 1][j + 1] = [text |-> k, target |-> k]
                  ELSE /\ rows[i + 1][j + 1] = [text |-> << >>, target |-> << >>]
                       /\ j = c - 1
                       /\ \A below \in i..(r - 1) : j * r + below >= NItems
            /\ \A i \in 0..(r - 1), j \in 0..(c - 2) : j * r + i < NItems

\* 23 names in 3 columns of 8 rows: the last slot of the last column is the
\* only one without an item
C7_Witness ==
    /\ Generated
    /\ NItems = 23
    /\ Len(index_md_body.rows) = 8
    /\ index_md_body.rows[8][3] = Cell(<< >>)
    /\ index_md_body.rows[7][3] /= Cell(<< >>)
    /\ << >> \notin Keys

(***************************************************************************)
(* Properties of main, checked under Spec.                                 *)
(***************************************************************************)
Bodies == { f \in srcFiles : f.ext = "md" }

\* C2: the metadata of every discovered body is rawName.yaml beside the
\* body if that exists, else common.yaml of the source root if that exists,
\* else absent; a body without metadata is discovered like any other.
C2_MetadataPrecedence ==
    /\ \A i \in 1..Len(discovered) :
          LET item    == discovered[i]
              sibling == File(item.bodyPath.dir, item.rawName, "yaml")
              shared  == File(Root, Common, "yaml")
          IN  /\ sibling \in srcFiles => item.metadataPath = sibling
              /\ (sibling \notin srcFiles /\ shared \in srcFiles)
                    => item.metadataPath = shared
              /\ (sibling \notin srcFiles /\ shared \notin srcFiles)
                    => item.metadataPath = None
    /\ (pc /= "get_args" /\ err \notin {"SystemExit", "UnicodeDecodeError"})
          => { discovered[i].bodyPath : i \in 1..Len(discovered) }
                \cup { walk[i] : i \in 1..Len(walk) } = Bodies

\* a body of the subdirectory with no rawName.yaml took common.yaml of the
\* source root although its own directory holds a common.yaml too
C2_Witness ==
    \E i \in 1..Len(discovered) :
        /\ discovered[i].bodyPath.dir = Sub
        /\ File(Sub, Common, "yaml") \in srcFiles
        /\ discovered[i].metadataPath = File(Root, Common, "yaml")

\* the last item discovered whose rawName slugs to k
LastDiscovered(k) ==
    discovered[CHOOSE i \in 1..Len(discovered) :
        /\ Slugify(discovered[i].rawName, FALSE) = k
        /\ \A j \in (i + 1)..Len(discovered) :
              Slugify(discovered[j].rawName, FALSE) /= k]

\* the names that two distinct rawNames slug to
Collided ==
    { k \in Keys : \E i, j \in 1..Len(discovered) :
        /\ discovered[i].rawName /= discovered[j].rawName
        /\ Slugify(discovered[i].rawName, FALSE) = k
        /\ Slugify(discovered[j].rawName, FALSE) = k }

\* C6: when two distinct rawNames slug to one name, the mapping holds one
\* entry for it, the pair of the last file discovered; the mapping has as
\* many entries as the bodies have distinct slugs; and after the run the
\* directory of that name holds the last-discovered body.
C6_LastDiscoveredWins ==
    /\ pc \notin {"get_args", "walk", "aborted"} =>
          Cardinality(Keys) =
              Cardinality({ Slugify(b.stem, FALSE) : b \in Bodies })
    /\ \A k \in Collided :
          /\ md_and_yaml_files[k] =
                [md   |-> LastDiscovered(k).bodyPath,
                 yaml |-> LastDiscovered(k).metadataPath]
          /\ pc = "done" =>
                outFiles[OutPath(PresentationDir(k), "PITCHME.md")] =
                    CopyOf(LastDiscovered(k).bodyPath)

\* C8: of the failures of materialization only directory-already-exists is
\* swallowed; any other one aborts the run before the index is written, and
\* what was materialized before stays.
C8_OnlyExistsSwallowed ==
    /\ swallowed \subseteq {"EEXIST"}
    /\ (pc = "aborted" /\ err = "IOError") =>
          outFiles[OutPath(OutRoot, "PITCHME.md")].kind /= "written"

\* C9: after a completed run the PITCHME.md of the output root is the
\* generated index, and its PITCHME.yaml exists exactly when index.yaml
\* exists at the source root, as a copy of it.
C9_IndexFilesIndependent ==
    pc = "done" =>
        /\ outFiles[OutPath(OutRoot, "PITCHME.md")] = Written(index_md_body)
        /\ outFiles[OutPath(OutRoot, "PITCHME.yaml")] /= Absent
              <=> File(Root, IndexStem, "yaml") \in srcFiles
        /\ outFiles[OutPath(OutRoot, "PITCHME.yaml")] /= Absent
              => outFiles[OutPath(OutRoot, "PITCHME.yaml")] =
                    CopyOf(File(Root, IndexStem, "yaml"))

InGitCalls(cmd) == \E i \in 1..Len(gitCalls) : gitCalls[i] = cmd

\* C10: the closing messages read no local that was never assigned,
\* whatever the flags and the outcomes of git; git push runs only after a
\* successful add and a successful commit; --no-git runs no git command.
C10_GitStepsComplete ==
    /\ err /= "NameError"
    /\ InGitCalls("push") => (add_ok = "True" /\ commit_ok = "True")
    /\ args.no_git => gitCalls = << >>

====
